---- MODULE Spec2Model ----
(***************************************************************************)
(* frogg_nfs_check_timed.py: a command-line NFS health check.  main        *)
(* resolves the server name, dispatches on the action, runs rpcinfo or     *)
(* showmount through run_command, parses the tool's text output and prints *)
(* one result.                                                             *)
(*                                                                         *)
(* Python str values are modelled as sequences of one-character strings,   *)
(* so that substring search, the regular expression, splitlines, split,    *)
(* int(), str() and json.dumps are computed character by character.        *)
(***************************************************************************)
EXTENDS Integers, Sequences, FiniteSets, TLC

VARIABLES argv, pc, resolved, invoked, proc, ret, result, raised, out, exit_code

vars == <<argv, pc, resolved, invoked, proc, ret, result, raised, out, exit_code>>

\* The most output lines the external tool writes (after the header line,
\* for showmount).
MaxLines == 2

\* run_command's default timeout, in seconds.
DefaultTimeout == 10

-----------------------------------------------------------------------------
(* Python built-ins, on sequences of characters *)

Min(S) == CHOOSE x \in S : \A y \in S : x <= y

Digits == <<"0", "1", "2", "3", "4", "5", "6", "7", "8", "9">>

IsDigit(c) == \E d \in 1..10 : Digits[d] = c

\* str.isspace for the characters of the model.
Whitespace == {" ", "\t", "\n"}

\* The line boundaries str.splitlines knows, among the characters of the model.
LineBreaks == {"\n"}

\* s[i:i+len(pat)] == pat
StartsWithAt(s, pat, i) ==
    /\ i + Len(pat) - 1 <= Len(s)
    /\ \A k \in 1..Len(pat) : s[i + k - 1] = pat[k]

\* pat in s
Contains(pat, s) == \E i \in 1..(Len(s) - Len(pat) + 1) : StartsWithAt(s, pat, i)

\* s.splitlines()
RECURSIVE splitlines(_)
splitlines(s) ==
    IF s = <<>> THEN <<>>
    ELSE LET nl == {i \in 1..Len(s) : s[i] \in LineBreaks}
         IN  IF nl = {} THEN <<s>>
             ELSE <<SubSeq(s, 1, Min(nl) - 1)>>
                      \o splitlines(SubSeq(s, Min(nl) + 1, Len(s)))

\* s.split(): the maximal runs of non-whitespace characters.
RECURSIVE split(_)
split(s) ==
    LET start == {i \in 1..Len(s) : s[i] \notin Whitespace}
    IN  IF start = {} THEN <<>>
        ELSE LET b    == Min(start)
                 ends == {j \in b..Len(s) : s[j] \in Whitespace}
                 e    == IF ends = {} THEN Len(s) + 1 ELSE Min(ends)
             IN  <<SubSeq(s, b, e - 1)>> \o split(SubSeq(s, e, Len(s)))

\* s.split(sep) for a one-character separator: empty items are kept.
RECURSIVE split_sep(_, _)
split_sep(s, sep) ==
    LET at == {i \in 1..Len(s) : s[i] = sep}
    IN  IF at = {} THEN <<s>>
        ELSE <<SubSeq(s, 1, Min(at) - 1)>>
                 \o split_sep(SubSeq(s, Min(at) + 1, Len(s)), sep)

\* sep.join(items)
RECURSIVE join(_, _)
join(sep, items) ==
    IF items = <<>> THEN <<>>
    ELSE IF Len(items) = 1 THEN items[1]
    ELSE items[1] \o sep \o join(sep, Tail(items))

\* int(s) for a non-empty string of digits.
RECURSIVE int(_)
int(s) ==
    IF s = <<>> THEN 0
    ELSE 10 * int(SubSeq(s, 1, Len(s) - 1))
             + ((CHOOSE d \in 1..10 : Digits[d] = s[Len(s)]) - 1)

\* str(n) for an integer.
RECURSIVE str(_)
str(n) ==
    IF n < 0 THEN <<"-">> \o str(0 - n)
    ELSE IF n < 10 THEN <<Digits[n + 1]>>
    ELSE str(n \div 10) \o <<Digits[(n % 10) + 1]>>

\* A result of max() that ignores all but the last element.
max_last(xs) == xs[Len(xs)]

\* max(xs) for a non-empty list of integers.
max(xs) == CHOOSE m \in {xs[i] : i \in 1..Len(xs)} : \A i \in 1..Len(xs) : xs[i] <= m

\* re.search(r"version (\d+)", line): the leftmost match, its group the
\* longest run of digits there.  found is FALSE for None.
re_search_version(line) ==
    LET pat  == <<"v","e","r","s","i","o","n"," ">>
        hits == {i \in 1..Len(line) :
                    /\ StartsWithAt(line, pat, i)
                    /\ i + Len(pat) <= Len(line)
                    /\ IsDigit(line[i + Len(pat)])}
    IN  IF hits = {} THEN [found |-> FALSE, group |-> <<>>]
        ELSE LET b    == Min(hits) + Len(pat)
                 stop == {j \in b..Len(line) : ~IsDigit(line[j])}
                 e    == IF stop = {} THEN Len(line) + 1 ELSE Min(stop)
             IN  [found |-> TRUE, group |-> SubSeq(line, b, e - 1)]

\* json.dumps of one str: quotes, with the two escapes the model's characters need.
RECURSIVE json_escape(_)
json_escape(s) ==
    IF s = <<>> THEN <<>>
    ELSE (CASE Head(s) = "\"" -> <<"\\", "\"">>
            [] Head(s) = "\\" -> <<"\\", "\\">>
            [] Head(s) = "\n" -> <<"\\", "n">>
            [] OTHER -> <<Head(s)>>) \o json_escape(Tail(s))

json_str(s) == <<"\"">> \o json_escape(s) \o <<"\"">>

\* json.dumps of a list of str.
json_dumps(items) ==
    <<"[">> \o join(<<","," ">>, [i \in 1..Len(items) |-> json_str(items[i])]) \o <<"]">>

\* list(S) for a set: every order of its elements is possible.
list_of(S) ==
    {f \in [1..Cardinality(S) -> S] : \A i, j \in 1..Cardinality(S) : f[i] = f[j] => i = j}

\* Python values a check returns: a str, or the int -1.
StrVal(s) == [type |-> "str", int |-> 0, str |-> s]
IntVal(n) == [type |-> "int", int |-> n, str |-> <<>>]
None == [type |-> "None", int |-> 0, str |-> <<>>]

\* str(v), as print applies it.
str_of(v) == IF v.type = "int" THEN str(v.int) ELSE v.str

-----------------------------------------------------------------------------
(* The environment: command lines, name resolution, the external tools *)

SERVER == <<"n","f","s","1">>

Actions == {<<"v","e","r","s","i","o","n">>, <<"s","h","a","r","e">>, <<"s","t","a","t","u","s">>}

SharesArgs ==
    { <<"/","s","r","v","/","a">>, <<"/","s","r","v","/","a",",","/","s","r","v","/","c">>, <<"/","s","r","v","/","a",",","/","s","r","v","/","b">>, <<"/","s","r","v","/","c",",","/","s","r","v","/","d">>,
      <<" ","/","s","r","v","/","a">>, <<>> }

\* sys.argv: the script name, then zero to three arguments (a fourth word
\* matters to the "share" action only).
ArgvSet ==
    {<< <<"n","f","s","_","c","h","e","c","k">> >>}
      \cup {<< <<"n","f","s","_","c","h","e","c","k">>, a >> : a \in Actions}
      \cup {<< <<"n","f","s","_","c","h","e","c","k">>, a, SERVER >> : a \in Actions}
      \cup {<< <<"n","f","s","_","c","h","e","c","k">>, <<"s","h","a","r","e">>, SERVER, s >> : s \in SharesArgs}
      \cup {<< <<"n","f","s","_","c","h","e","c","k">>, <<"v","e","r","s","i","o","n">>, SERVER, <<"/","s","r","v","/","a">> >>}

\* Lines rpcinfo -t <server> nfs may write.
RpcinfoLines ==
    { <<"p","r","o","g","r","a","m"," ","1","0","0","0","0","3"," ","v","e","r","s","i","o","n"," ","3"," ","r","e","a","d","y"," ","a","n","d"," ","w","a","i","t","i","n","g">>,
      <<"p","r","o","g","r","a","m"," ","1","0","0","0","0","3"," ","v","e","r","s","i","o","n"," ","4"," ","r","e","a","d","y"," ","a","n","d"," ","w","a","i","t","i","n","g">>,
      <<"p","r","o","g","r","a","m"," ","1","0","0","0","0","3"," ","v","e","r","s","i","o","n"," ","1","0"," ","r","e","a","d","y"," ","a","n","d"," ","w","a","i","t","i","n","g">>,
      <<"p","r","o","g","r","a","m"," ","1","0","0","0","0","3"," ","v","e","r","s","i","o","n"," ","0"," ","r","e","a","d","y"," ","a","n","d"," ","w","a","i","t","i","n","g">>,
      <<"p","r","o","g","r","a","m"," ","1","0","0","0","0","3"," ","v","e","r","s","i","o","n"," ","2"," ","i","s"," ","n","o","t"," ","a","v","a","i","l","a","b","l","e">>,
      <<"r","e","a","d","y"," ","a","n","d"," ","w","a","i","t","i","n","g">>,
      <<>> }

\* Lines showmount -e <server> may write after its header.
ShowmountLines ==
    { <<"/","s","r","v","/","a"," ","*">>, <<"/","s","r","v","/","b"," ","1","0",".","0",".","0",".","0","/","2","4">>, <<" "," ","/","s","r","v","/","c"," ","*">>, <<" "," ">>, <<>> }

ShowmountHeader == <<"E","x","p","o","r","t"," ","l","i","s","t"," ","f","o","r"," ","n","f","s","1",":">>

\* Text of k lines drawn from L, each ended by a newline.
RECURSIVE TextOf(_)
TextOf(ls) == IF ls = <<>> THEN <<>> ELSE Head(ls) \o <<"\n">> \o TextOf(Tail(ls))

LinesUpTo(L, n) == UNION {[1..k -> L] : k \in 0..n}

RpcinfoStdout == {TextOf(ls) : ls \in LinesUpTo(RpcinfoLines, MaxLines)}

ShowmountStdout ==
    {<<>>} \cup {TextOf(<<ShowmountHeader>> \o ls) : ls \in LinesUpTo(ShowmountLines, MaxLines)}

StderrTexts == { <<>>, <<"c","l","n","t","_","c","r","e","a","t","e",":"," ","R","P","C",":"," ","P","r","o","g","r","a","m"," ","n","o","t"," ","r","e","g","i","s","t","e","r","e","d","\n">> }

ExitCodes == {0, 1}

Completed(rc, o, e) ==
    [kind |-> "completed", returncode |-> rc, stdout |-> o, stderr |-> e, msg |-> <<>>]

TimeoutExpired ==
    [kind |-> "TimeoutExpired", returncode |-> 0, stdout |-> <<>>, stderr |-> <<>>, msg |-> <<>>]

OSError(m) ==
    [kind |-> "Exception", returncode |-> 0, stdout |-> <<>>, stderr |-> <<>>, msg |-> m]

NoProc == [kind |-> "none", returncode |-> 0, stdout |-> <<>>, stderr |-> <<>>, msg |-> <<>>]

\* What subprocess.run can do with the command: the process ends with an exit
\* code and its two texts, it outlives the timeout, or it cannot be started.
ProcOutcomes(tool) ==
    {Completed(rc, o, e) :
        rc \in ExitCodes,
        o \in (IF tool = <<"r","p","c","i","n","f","o">> THEN RpcinfoStdout ELSE ShowmountStdout),
        e \in StderrTexts}
      \cup {TimeoutExpired}
      \cup {OSError(<<"[","E","r","r","n","o"," ","2","]"," ","N","o"," ","s","u","c","h"," ","f","i","l","e"," ","o","r"," ","d","i","r","e","c","t","o","r","y",":"," ","'">> \o tool \o <<"'">>)}

-----------------------------------------------------------------------------
(* The program *)

\* run_command with every failure returned as exit code 1.
run_command_no_124(command, timeout, outcome) ==
    IF outcome.kind = "completed"
    THEN <<outcome.returncode, outcome.stdout, outcome.stderr>>
    ELSE <<1, <<>>, outcome.msg>>

\* run_command(command, timeout): (exit code, stdout, stderr).
run_command(command, timeout, outcome) ==
    CASE outcome.kind = "completed" ->
            <<outcome.returncode, outcome.stdout, outcome.stderr>>
      [] outcome.kind = "TimeoutExpired" ->
            <<124, <<>>,
              <<"C","o","m","m","a","n","d"," ","'">> \o join(<<" ">>, command) \o <<"'"," ","t","i","m","e","d"," ","o","u","t"," ","a","f","t","e","r"," ">>
                  \o str(timeout) \o <<" ","s","e","c","o","n","d","s",".">>>>
      [] OTHER -> <<1, <<>>, outcome.msg>>

\* The versions list of get_nfs_version, built line by line.
RECURSIVE versions_of(_)
versions_of(lines) ==
    IF lines = <<>> THEN <<>>
    ELSE LET line  == Head(lines)
             match == re_search_version(line)
         IN  (IF Contains(<<"r","e","a","d","y"," ","a","n","d"," ","w","a","i","t","i","n","g">>, line) /\ match.found
              THEN <<int(match.group)>> ELSE <<>>) \o versions_of(Tail(lines))

\* get_nfs_version without its exit-code check.
get_nfs_version_unchecked(r) ==
    LET versions == versions_of(splitlines(r[2]))
    IN  IF versions # <<>> THEN StrVal(str(max(versions))) ELSE StrVal(<<"0">>)

\* get_nfs_version, from run_command's return value on.
get_nfs_version(r) ==
    IF r[1] # 0 THEN IntVal(0 - 1)
    ELSE LET versions == versions_of(splitlines(r[2]))
         IN  IF versions # <<>> THEN StrVal(str(max(versions))) ELSE StrVal(<<"0">>)

\* The lines of stdout after the first.
export_lines(stdout) == LET ls == splitlines(stdout) IN SubSeq(ls, 2, Len(ls))

\* line.split()[0] raises IndexError on a line with no token.
raises_IndexError(stdout) ==
    \E i \in 1..Len(export_lines(stdout)) : split(export_lines(stdout)[i]) = <<>>

available_shares(stdout) ==
    {split(export_lines(stdout)[i])[1] : i \in 1..Len(export_lines(stdout))}

requested_shares(shares) ==
    {split_sep(shares, ",")[i] : i \in 1..Len(split_sep(shares, ","))}

\* check_nfs_share that treats only a timeout as a failure.
check_nfs_share_only_124(r, shares) ==
    IF r[1] = 124 THEN {[raised |-> "", value |-> StrVal(<<"E","r","r","o","r",":"," ">> \o r[3])]}
    ELSE IF raises_IndexError(r[2]) THEN {[raised |-> "IndexError", value |-> None]}
    ELSE LET not_found == requested_shares(shares) \ available_shares(r[2])
         IN  IF not_found # {}
             THEN {[raised |-> "", value |-> StrVal(json_dumps(l))] : l \in list_of(not_found)}
             ELSE {[raised |-> "", value |-> StrVal(<<>>)]}

\* check_nfs_share, from run_command's return value on: the set of its
\* possible outcomes (a returned value, or the exception it raises).
check_nfs_share(r, shares) ==
    IF r[1] # 0 THEN {[raised |-> "", value |-> StrVal(<<"E","r","r","o","r",":"," ">> \o r[3])]}
    ELSE IF raises_IndexError(r[2]) THEN {[raised |-> "IndexError", value |-> None]}
    ELSE LET not_found == requested_shares(shares) \ available_shares(r[2])
         IN  IF not_found # {}
             THEN {[raised |-> "", value |-> StrVal(json_dumps(l))] : l \in list_of(not_found)}
             ELSE {[raised |-> "", value |-> StrVal(<<>>)]}

Init ==
    /\ argv \in ArgvSet
    /\ pc = "main"
    /\ resolved = "no"
    /\ invoked = <<>>
    /\ proc = NoProc
    /\ ret = <<0, <<>>, <<>>>>
    /\ result = None
    /\ raised = ""
    /\ out = <<>>
    /\ exit_code = 0

\* sys.exit(code), or the interpreter ending on an uncaught exception.
Exit(code) == pc' = "exited" /\ exit_code' = code

\* main: the argument count check.
MainArgs ==
    /\ pc = "main"
    /\ IF Len(argv) < 3 THEN Exit(1) ELSE pc' = "resolve" /\ exit_code' = exit_code
    /\ UNCHANGED <<argv, resolved, invoked, proc, ret, result, raised, out>>

\* main: socket.gethostbyname(server) returns.
ResolveOk ==
    /\ pc = "resolve"
    /\ resolved' = "ok"
    /\ pc' = "dispatch"
    /\ UNCHANGED <<argv, invoked, proc, ret, result, raised, out, exit_code>>

\* A failed resolution that is logged and not acted on.
ResolveFailNoExit ==
    /\ pc = "resolve"
    /\ resolved' = "failed"
    /\ pc' = "dispatch"
    /\ UNCHANGED <<argv, invoked, proc, ret, result, raised, out, exit_code>>

\* main: socket.gethostbyname(server) raises socket.gaierror.
ResolveFail ==
    /\ pc = "resolve"
    /\ resolved' = "failed"
    /\ Exit(1)
    /\ UNCHANGED <<argv, invoked, proc, ret, result, raised, out>>

\* main: action == "version", the call of get_nfs_version(server).
DispatchVersion ==
    /\ pc = "dispatch"
    /\ argv[2] = <<"v","e","r","s","i","o","n">>
    /\ LET command == << <<"r","p","c","i","n","f","o">>, <<"-","t">>, argv[3], <<"n","f","s">> >>
       IN  \E outcome \in ProcOutcomes(command[1]) :
              /\ invoked' = Append(invoked, command)
              /\ proc' = outcome
              /\ ret' = run_command(command, DefaultTimeout, outcome)
              /\ result' = get_nfs_version(ret')
    /\ pc' = "print"
    /\ UNCHANGED <<argv, resolved, raised, out, exit_code>>

\* main: action == "share", the shares argument check and the call of
\* check_nfs_share(server, shares).
DispatchShare ==
    /\ pc = "dispatch"
    /\ argv[2] = <<"s","h","a","r","e">>
    /\ IF Len(argv) < 4
       THEN /\ Exit(1)
            /\ UNCHANGED <<invoked, proc, ret, result, raised>>
       ELSE LET command == << <<"s","h","o","w","m","o","u","n","t">>, <<"-","e">>, argv[3] >>
            IN  \E outcome \in ProcOutcomes(command[1]) :
                   /\ invoked' = Append(invoked, command)
                   /\ proc' = outcome
                   /\ ret' = run_command(command, DefaultTimeout, outcome)
                   /\ \E res \in check_nfs_share(ret', argv[4]) :
                         /\ raised' = res.raised
                         /\ result' = res.value
                         /\ IF res.raised # ""
                            THEN Exit(1)
                            ELSE pc' = "print" /\ exit_code' = exit_code
    /\ UNCHANGED <<argv, resolved, out>>

\* An unknown action that is run as "version".
DispatchUnknownAsVersion ==
    /\ pc = "dispatch"
    /\ argv[2] \notin {<<"v","e","r","s","i","o","n">>, <<"s","h","a","r","e">>}
    /\ LET command == << <<"r","p","c","i","n","f","o">>, <<"-","t">>, argv[3], <<"n","f","s">> >>
       IN  \E outcome \in ProcOutcomes(command[1]) :
              /\ invoked' = Append(invoked, command)
              /\ proc' = outcome
              /\ ret' = run_command(command, DefaultTimeout, outcome)
              /\ result' = get_nfs_version(ret')
    /\ pc' = "print"
    /\ UNCHANGED <<argv, resolved, raised, out, exit_code>>

\* main: any other action.
DispatchUnknown ==
    /\ pc = "dispatch"
    /\ argv[2] \notin {<<"v","e","r","s","i","o","n">>, <<"s","h","a","r","e">>}
    /\ Exit(1)
    /\ UNCHANGED <<argv, resolved, invoked, proc, ret, result, raised, out>>

\* main: print(result), and the normal end of the script.
PrintResult ==
    /\ pc = "print"
    /\ out' = out \o str_of(result) \o <<"\n">>
    /\ Exit(0)
    /\ UNCHANGED <<argv, resolved, invoked, proc, ret, result, raised>>

Next ==
    \/ MainArgs
    \/ ResolveOk
    \/ ResolveFail
    \/ DispatchVersion
    \/ DispatchShare
    \/ DispatchUnknown
    \/ PrintResult

Spec == Init /\ [][Next]_vars
-----------------------------------------------------------------------------
(* The claims *)

\* The tool the run started, if it started one.
Ran(tool) == invoked # <<>> /\ invoked[1][1] = tool

\* The check has returned to main (or main has ended after it).
Returned == pc \in {"print", "exited"} /\ raised = ""

\* The versions a text advertises: the N of the leftmost "version N" of each
\* line that contains "ready and waiting".
AdvertisedVersions(stdout) ==
    LET ls == splitlines(stdout)
    IN  {int(re_search_version(ls[i]).group) :
            i \in {j \in 1..Len(ls) : /\ Contains(<<"r","e","a","d","y"," ","a","n","d"," ","w","a","i","t","i","n","g">>, ls[j])
                                      /\ re_search_version(ls[j]).found}}

MaxOf(S) == CHOOSE m \in S : \A x \in S : x <= m

\* s is the decimal numeral of n: digits only, no leading zero, value n.
IsDecimalOf(s, n) ==
    /\ s # <<>>
    /\ \A i \in 1..Len(s) : IsDigit(s[i])
    /\ Len(s) > 1 => s[1] # "0"
    /\ int(s) = n

\* The texts with the same lines as stdout, in every order.
Reorderings(stdout) ==
    LET ls == splitlines(stdout)
    IN  {TextOf([i \in 1..Len(ls) |-> ls[p[i]]]) : p \in Permutations(1..Len(ls))}

\* C1: when rpcinfo exits 0 and at least one line advertises a version,
\* get_nfs_version returns the decimal string of the largest advertised
\* version, and returns the same for every order of the lines.
C1_MaxVersion ==
    (Ran(<<"r","p","c","i","n","f","o">>) /\ Returned /\ proc.kind = "completed" /\ proc.returncode = 0
        /\ AdvertisedVersions(proc.stdout) # {})
    => /\ result.type = "str"
       /\ IsDecimalOf(result.str, MaxOf(AdvertisedVersions(proc.stdout)))
       /\ \A t \in Reorderings(proc.stdout) : get_nfs_version(<<0, t, proc.stderr>>) = result

\* C1 witness: two lines advertise versions, the larger one first, and the
\* larger one has more digits.
C1_Witness ==
    /\ Ran(<<"r","p","c","i","n","f","o">>) /\ pc = "exited" /\ proc.kind = "completed" /\ proc.returncode = 0
    /\ versions_of(splitlines(proc.stdout)) = <<10, 3>>
    /\ result = StrVal(<<"1","0">>)

\* C2 as stated: get_nfs_version returns "0" exactly when the exit code is 0
\* and no line yields a version; on a non-zero exit code it returns the
\* error marker -1, never "0" or a version number.
C2_Original ==
    (Ran(<<"r","p","c","i","n","f","o">>) /\ pc \in {"print", "exited"})
    => /\ raised = ""
       /\ result = StrVal(<<"0">>) <=> (ret[1] = 0 /\ AdvertisedVersions(ret[2]) = {})
       /\ ret[1] # 0 => result = IntVal(0 - 1)

\* C2 amended: get_nfs_version returns "0" exactly when the exit code is 0
\* and no line yields a version other than 0; on a non-zero exit code
\* (124 included) it returns the int -1, whatever stdout holds, which is
\* neither "0" nor a version number; it never raises.
C2_ZeroOrError ==
    (Ran(<<"r","p","c","i","n","f","o">>) /\ pc \in {"print", "exited"})
    => /\ raised = ""
       /\ result = StrVal(<<"0">>) <=> (ret[1] = 0 /\ AdvertisedVersions(ret[2]) \subseteq {0})
       /\ ret[1] # 0 => /\ result = IntVal(0 - 1)
                        /\ result.type # "str"
                        /\ \E i \in 1..Len(str_of(result)) : ~IsDigit(str_of(result)[i])

\* C2 witness: rpcinfo exits non-zero with lines that advertise versions,
\* and the check returns -1.
C2_Witness ==
    /\ Ran(<<"r","p","c","i","n","f","o">>) /\ pc = "exited" /\ proc.kind = "completed" /\ proc.returncode # 0
    /\ AdvertisedVersions(proc.stdout) # {}
    /\ result = IntVal(0 - 1)

\* The first tokens of the lines after the header that have a token.
AvailableIn(stdout) ==
    LET ls == splitlines(stdout)
    IN  {split(ls[i])[1] : i \in {j \in 2..Len(ls) : split(ls[j]) # <<>>}}

\* The comma-separated items of the shares argument, untrimmed.
RequestedIn(shares) ==
    LET items == split_sep(shares, ",") IN {items[i] : i \in 1..Len(items)}

\* result lists exactly the shares of S, each once.
IsListingOf(v, S) == \E l \in list_of(S) : v = StrVal(json_dumps(l))

\* C3 as stated: when showmount exits 0, check_nfs_share returns "" if
\* requested - available is empty and otherwise a listing of exactly that set.
C3_Original ==
    (Ran(<<"s","h","o","w","m","o","u","n","t">>) /\ pc \in {"print", "exited"} /\ ret[1] = 0)
    => /\ raised = ""
       /\ LET diff == RequestedIn(argv[4]) \ AvailableIn(ret[2])
          IN  /\ result = StrVal(<<>>) <=> diff = {}
              /\ diff # {} => IsListingOf(result, diff)

\* C4: a command is invoked only after the server name has resolved; after a
\* failed resolution main has exited with code 1, whatever the action, no
\* command was run and nothing was printed.
C4_ResolveFirst ==
    /\ invoked # <<>> => resolved = "ok"
    /\ resolved = "failed" =>
          /\ pc = "exited" /\ exit_code = 1
          /\ invoked = <<>>
          /\ out = <<>>

\* C4 witness: an otherwise valid share run ends on the failed resolution.
C4_Witness ==
    /\ resolved = "failed" /\ pc = "exited" /\ exit_code = 1
    /\ Len(argv) = 4 /\ argv[2] = <<"s","h","a","r","e">>

\* C5: run_command returns (124, "", message naming the timeout) on a
\* timeout, (1, "", error text) on any other failure to run the command,
\* and otherwise the process's own exit code, stdout and stderr.
C5_RunCommand ==
    invoked # <<>> =>
       /\ proc.kind = "TimeoutExpired" =>
             /\ ret[1] = 124 /\ ret[2] = <<>>
             /\ Contains(str(DefaultTimeout), ret[3])
             /\ Contains(<<"t","i","m","e","d"," ","o","u","t">>, ret[3])
       /\ proc.kind = "Exception" => ret = <<1, <<>>, proc.msg>>
       /\ proc.kind = "completed" => ret = <<proc.returncode, proc.stdout, proc.stderr>>
       /\ proc.kind \in {"TimeoutExpired", "Exception", "completed"}

\* C5 witness: the command timed out and run_command returned code 124.
C5_Witness == invoked # <<>> /\ proc.kind = "TimeoutExpired" /\ ret[1] = 124

\* The run is one main ends with sys.exit(1) for its arguments or action.
UsageError ==
    \/ Len(argv) < 3
    \/ argv[2] \notin {<<"v","e","r","s","i","o","n">>, <<"s","h","a","r","e">>}
    \/ argv[2] = <<"s","h","a","r","e">> /\ Len(argv) < 4

\* C6 as stated: the exit code is 1 exactly when arguments are missing, the
\* action is unknown or the resolution failed; every other run prints the
\* result and exits 0.
C6_Original ==
    pc = "exited" =>
       /\ exit_code = 1 <=> (UsageError \/ resolved = "failed")
       /\ exit_code = 0 => out = str_of(result) \o <<"\n">>

\* C7: when showmount's run reports a non-zero exit code, check_nfs_share
\* returns "Error: " followed by the captured stderr, raises nothing whatever
\* stdout holds, and returns neither "" nor a listing of requested shares.
C7_ShareError ==
    (Ran(<<"s","h","o","w","m","o","u","n","t">>) /\ pc \in {"print", "exited"} /\ ret[1] # 0)
    => /\ raised = ""
       /\ result = StrVal(<<"E","r","r","o","r",":"," ">> \o ret[3])
       /\ Contains(ret[3], result.str)
       /\ result # StrVal(<<>>)
       /\ \A S \in SUBSET RequestedIn(argv[4]) : ~IsListingOf(result, S)

\* C7 witness: showmount exits 1 with a blank line after its header, and
\* the run ends normally with the error string.
C7_Witness ==
    /\ Ran(<<"s","h","o","w","m","o","u","n","t">>) /\ pc = "exited" /\ exit_code = 0
    /\ proc.kind = "completed" /\ proc.returncode = 1
    /\ raises_IndexError(proc.stdout)
    /\ proc.stderr # <<>>

\* C8 as stated: a run that exits 0 has written exactly one line, the
\* result; a run that exits 1 has written nothing.
C8_Original ==
    pc = "exited" =>
       /\ exit_code = 0 => /\ out = str_of(result) \o <<"\n">>
                           /\ Len(splitlines(out)) = 1
       /\ exit_code = 1 => out = <<>>

\* C9: with an unknown action, or "share" without shares, main ends with
\* exit code 1 and runs no command; a run invokes at most one command,
\* rpcinfo only for "version" and showmount only for "share".
C9_Dispatch ==
    /\ (Len(argv) >= 2 /\ (\/ argv[2] \notin {<<"v","e","r","s","i","o","n">>, <<"s","h","a","r","e">>}
                           \/ argv[2] = <<"s","h","a","r","e">> /\ Len(argv) < 4))
          => /\ invoked = <<>> /\ out = <<>>
             /\ pc # "print"
             /\ pc = "exited" => exit_code = 1
    /\ Len(invoked) <= 1
    /\ \A i \in 1..Len(invoked) :
          /\ invoked[i][1] \in {<<"r","p","c","i","n","f","o">>, <<"s","h","o","w","m","o","u","n","t">>}
          /\ invoked[i][1] = <<"r","p","c","i","n","f","o">> => argv[2] = <<"v","e","r","s","i","o","n">>
          /\ invoked[i][1] = <<"s","h","o","w","m","o","u","n","t">> => argv[2] = <<"s","h","a","r","e">>

\* C9 witness: the name resolved, the action is unknown, main exited 1.
C9_Witness ==
    /\ pc = "exited" /\ exit_code = 1 /\ resolved = "ok"
    /\ argv[2] = <<"s","t","a","t","u","s">> /\ invoked = <<>>

\* C10 as stated: for every stdout of a showmount that exits 0,
\* check_nfs_share returns a result and main prints it and exits 0.
C10_Original ==
    (Ran(<<"s","h","o","w","m","o","u","n","t">>) /\ ret[1] = 0)
    => /\ raised = ""
       /\ pc = "exited" => exit_code = 0

====
